---- MODULE Spec2Model ----
(***************************************************************************)
(* State-transition model of the paperclip protocol program                *)
(* (programs/paperclip-protocol): the five record kinds stored at derived  *)
(* addresses and the seven instructions that create and mutate them.       *)
(*                                                                         *)
(* Every instruction is modelled in two parts, as the program is written:  *)
(* the account validation of its #[derive(Accounts)] struct (typed         *)
(* accounts are loaded in field order, then `init` accounts are created,   *)
(* then the remaining constraints are checked), followed by its handler.   *)
(* Both parts yield a transaction result [err, st]; the working state st   *)
(* of a failed transaction holds the writes made before the failure and is *)
(* discarded by Commit.                                                    *)
(*                                                                         *)
(* Not modelled: bump bytes, reserved padding, title / content_cid /       *)
(* proof_cid payloads and the clock fields (registered_at, last_active_at, *)
(* created_at, completed_at); no instruction reads them.                   *)
(***************************************************************************)
EXTENDS Integers, Sequences, FiniteSets, TLC

VARIABLES protocol, agents, tasks, claims, invites

vars == <<protocol, agents, tasks, claims, invites>>

(***************************************************************************)
(* Integer widths.  u64, u32 and u16 are modelled by narrower unsigned     *)
(* ranges so that the checked additions can be driven to their limit.      *)
(***************************************************************************)
U64Max == 4095
U32Max == 2
U16Max == 2

(***************************************************************************)
(* Program constants.                                                      *)
(***************************************************************************)
PROTOCOL_SEED == "protocol"
AGENT_SEED == "agent"
TASK_SEED == "task"
CLAIM_SEED == "claim"
INVITE_SEED == "invite"
NO_PREREQ_TASK_ID == U32Max
ACCOUNT_LAYOUT_V1 == 1

(***************************************************************************)
(* Identities (Pubkey) and instruction inputs.                             *)
(***************************************************************************)
Identities == {"w1", "w2", "w3"}
DefaultPubkey == "default"
TaskIds == {0, 1}
BaseRewardUnits == {1000, U64Max \div 3, U64Max \div 2}
\* Signers of initialize, and <<reward_clips, max_claims, min_tier>> arguments
\* of create_task.
Authorities == {"w1"}
TaskParams == {<<U64Max \div 2 + 1, 1, 0>>, <<7, U16Max, 0>>, <<9, 1, 1>>}

\* Pubkey::to_bytes: the 32 bytes of a key (an injective image of the key).
to_bytes(key) == <<"bytes32", key>>

\* u32::to_le_bytes
to_le_bytes(n) == <<n % 256, (n \div 256) % 256, (n \div 65536) % 256, (n \div 16777216) % 256>>

\* The codes a caller presents: the keys of two of the identities, so that
\* the invite of the third is never matched.
InviteCodes == {to_bytes("w1"), to_bytes("w2")}

(***************************************************************************)
(* Address derivation: the address is a collision-free function of the     *)
(* seed list.                                                              *)
(***************************************************************************)
find_program_address(seeds) == seeds

ProtocolPda == find_program_address(<<PROTOCOL_SEED>>)
AgentPda(wallet) == find_program_address(<<AGENT_SEED, wallet>>)
TaskPda(task_id) == find_program_address(<<TASK_SEED, to_le_bytes(task_id)>>)
ClaimPda(task_id, agent) == find_program_address(<<CLAIM_SEED, to_le_bytes(task_id), agent>>)
InvitePda(wallet) == find_program_address(<<INVITE_SEED, wallet>>)

\* What a caller may pass as remaining_accounts[0] of submit_proof.
NoAccount == <<>>
PrereqRefs ==
  {NoAccount, ProtocolPda} \cup {ClaimPda(t, w) : t \in TaskIds, w \in Identities}

(***************************************************************************)
(* Records as `init` leaves them: zero-filled.                             *)
(***************************************************************************)
ZeroProtocolState ==
  [layout_version |-> 0, authority |-> DefaultPubkey, base_reward_unit |-> 0,
   total_agents |-> 0, total_tasks |-> 0, total_clips_distributed |-> 0,
   paused |-> FALSE]

ZeroAgentAccount ==
  [layout_version |-> 0, wallet |-> DefaultPubkey, clips_balance |-> 0,
   efficiency_tier |-> 0, tasks_completed |-> 0, invites_sent |-> 0,
   invites_redeemed |-> 0, invited_by |-> DefaultPubkey]

ZeroTaskRecord ==
  [layout_version |-> 0, task_id |-> 0, creator |-> DefaultPubkey,
   reward_clips |-> 0, max_claims |-> 0, current_claims |-> 0,
   is_active |-> FALSE, min_tier |-> 0, required_task_id |-> 0]

ZeroClaimRecord ==
  [layout_version |-> 0, task_id |-> 0, agent |-> DefaultPubkey, clips_awarded |-> 0]

ZeroInviteRecord ==
  [layout_version |-> 0, inviter_wallet |-> DefaultPubkey,
   invite_code |-> to_bytes(DefaultPubkey), invites_redeemed |-> 0,
   is_active |-> FALSE]

(***************************************************************************)
(* Transaction results.                                                    *)
(***************************************************************************)
St == [protocol |-> protocol, agents |-> agents, tasks |-> tasks,
       claims |-> claims, invites |-> invites]

Ok(st) == [err |-> "Ok", st |-> st]
Fail(e, st) == [err |-> e, st |-> st]

\* checked_add / checked_mul / checked_div on an unsigned type with maximum max:
\* <<>> is None, <<v>> is Some(v).
checked_add(a, b, max) == IF a + b > max THEN <<>> ELSE <<a + b>>
checked_mul(a, b, max) == IF a * b > max THEN <<>> ELSE <<a * b>>
checked_div(a, b) == IF b = 0 THEN <<>> ELSE <<a \div b>>

\* `init`: system-program creation of the record at addr; it fails when the
\* address already holds a record.
Exists(store, addr) == addr \in DOMAIN store
InitAccount(store, addr, zero) == (addr :> zero) @@ store

(***************************************************************************)
(* initialize                                                              *)
(***************************************************************************)
\* Mutant: the Protocol record is created with init_if_needed, so a later
\* initialize runs the handler on the existing record.
Initialize_accounts_IfNeeded(st) ==
  IF Exists(st.protocol, ProtocolPda) THEN Ok(st)
  ELSE Ok([st EXCEPT !.protocol = InitAccount(@, ProtocolPda, ZeroProtocolState)])

Initialize_accounts(st) ==
  IF Exists(st.protocol, ProtocolPda) THEN Fail("AccountAlreadyInUse", st)
  ELSE Ok([st EXCEPT !.protocol = InitAccount(@, ProtocolPda, ZeroProtocolState)])

initialize_handler(st, authority, base_reward_unit) ==
  Ok([st EXCEPT !.protocol[ProtocolPda] =
        [@ EXCEPT !.layout_version = ACCOUNT_LAYOUT_V1,
                  !.authority = authority,
                  !.base_reward_unit = base_reward_unit,
                  !.total_agents = 0,
                  !.total_tasks = 0,
                  !.total_clips_distributed = 0,
                  !.paused = FALSE]])

initialize(st, authority, base_reward_unit) ==
  LET a == Initialize_accounts(st)
  IN IF a.err # "Ok" THEN a ELSE initialize_handler(a.st, authority, base_reward_unit)

(***************************************************************************)
(* register_agent                                                          *)
(***************************************************************************)
\* Mutant: the Agent record is created with init_if_needed, so an occupied
\* address does not stop the registration.
RegisterAgent_accounts_IfNeeded(st, agent) ==
  IF ~Exists(st.protocol, ProtocolPda) THEN Fail("AccountNotInitialized", st)
  ELSE IF Exists(st.agents, AgentPda(agent)) THEN Ok(st)
  ELSE Ok([st EXCEPT !.agents = InitAccount(@, AgentPda(agent), ZeroAgentAccount)])

RegisterAgent_accounts(st, agent) ==
  IF ~Exists(st.protocol, ProtocolPda) THEN Fail("AccountNotInitialized", st)
  ELSE IF Exists(st.agents, AgentPda(agent)) THEN Fail("AccountAlreadyInUse", st)
  ELSE Ok([st EXCEPT !.agents = InitAccount(@, AgentPda(agent), ZeroAgentAccount)])

\* Mutant: the base reward is credited to the agent but not added to
\* total_clips_distributed.
register_agent_handler_NoDistributed(st, agent) ==
  LET p == st.protocol[ProtocolPda]
      st1 == [st EXCEPT !.agents[AgentPda(agent)] =
                [@ EXCEPT !.layout_version = ACCOUNT_LAYOUT_V1,
                          !.wallet = agent,
                          !.clips_balance = p.base_reward_unit,
                          !.efficiency_tier = 0,
                          !.tasks_completed = 0]]
      total_agents == checked_add(p.total_agents, 1, U32Max)
  IN IF total_agents = <<>> THEN Fail("MathOverflow", st1)
     ELSE Ok([st1 EXCEPT !.protocol[ProtocolPda].total_agents = total_agents[1]])

\* Mutant: total_agents is not incremented.
register_agent_handler_NoCount(st, agent) ==
  LET p == st.protocol[ProtocolPda]
      st1 == [st EXCEPT !.agents[AgentPda(agent)] =
                [@ EXCEPT !.layout_version = ACCOUNT_LAYOUT_V1,
                          !.wallet = agent,
                          !.clips_balance = p.base_reward_unit,
                          !.efficiency_tier = 0,
                          !.tasks_completed = 0]]
      total_clips == checked_add(p.total_clips_distributed, p.base_reward_unit, U64Max)
  IN IF total_clips = <<>> THEN Fail("MathOverflow", st1)
     ELSE Ok([st1 EXCEPT !.protocol[ProtocolPda].total_clips_distributed = total_clips[1]])

register_agent_handler(st, agent) ==
  LET p == st.protocol[ProtocolPda]
      st1 == [st EXCEPT !.agents[AgentPda(agent)] =
                [@ EXCEPT !.layout_version = ACCOUNT_LAYOUT_V1,
                          !.wallet = agent,
                          !.clips_balance = p.base_reward_unit,
                          !.efficiency_tier = 0,
                          !.tasks_completed = 0]]
      total_agents == checked_add(p.total_agents, 1, U32Max)
  IN IF total_agents = <<>> THEN Fail("MathOverflow", st1)
     ELSE LET st2 == [st1 EXCEPT !.protocol[ProtocolPda].total_agents = total_agents[1]]
              total_clips == checked_add(p.total_clips_distributed, p.base_reward_unit, U64Max)
          IN IF total_clips = <<>> THEN Fail("MathOverflow", st2)
             ELSE Ok([st2 EXCEPT !.protocol[ProtocolPda].total_clips_distributed = total_clips[1]])

register_agent(st, agent) ==
  LET a == RegisterAgent_accounts(st, agent)
  IN IF a.err # "Ok" THEN a ELSE register_agent_handler(a.st, agent)

(***************************************************************************)
(* create_invite                                                           *)
(***************************************************************************)
CreateInvite_accounts(st, agent) ==
  IF ~Exists(st.protocol, ProtocolPda) THEN Fail("AccountNotInitialized", st)
  ELSE IF ~Exists(st.agents, AgentPda(agent)) THEN Fail("AccountNotInitialized", st)
  ELSE IF Exists(st.invites, InvitePda(agent)) THEN Fail("AccountAlreadyInUse", st)
  ELSE LET st1 == [st EXCEPT !.invites = InitAccount(@, InvitePda(agent), ZeroInviteRecord)]
       IN IF st.agents[AgentPda(agent)].wallet # agent THEN Fail("Unauthorized", st1)
          ELSE Ok(st1)

\* Mutant: a new Invite starts with one redemption counted.
create_invite_handler_Redeemed(st, agent) ==
  Ok([st EXCEPT !.invites[InvitePda(agent)] =
        [@ EXCEPT !.layout_version = ACCOUNT_LAYOUT_V1,
                  !.inviter_wallet = agent,
                  !.invite_code = to_bytes(agent),
                  !.invites_redeemed = 1,
                  !.is_active = TRUE]])

create_invite_handler(st, agent) ==
  Ok([st EXCEPT !.invites[InvitePda(agent)] =
        [@ EXCEPT !.layout_version = ACCOUNT_LAYOUT_V1,
                  !.inviter_wallet = agent,
                  !.invite_code = to_bytes(agent),
                  !.is_active = TRUE]])

create_invite(st, agent) ==
  LET a == CreateInvite_accounts(st, agent)
  IN IF a.err # "Ok" THEN a ELSE create_invite_handler(a.st, agent)

(***************************************************************************)
(* register_agent_with_invite                                              *)
(* inviter and invite_of name the wallets whose Agent and Invite records   *)
(* the caller passes as inviter_agent and invite_record.                   *)
(***************************************************************************)
RegisterAgentWithInvite_accounts(st, agent, inviter, invite_of) ==
  IF ~Exists(st.protocol, ProtocolPda) THEN Fail("AccountNotInitialized", st)
  ELSE IF ~Exists(st.agents, AgentPda(inviter)) THEN Fail("AccountNotInitialized", st)
  ELSE IF ~Exists(st.invites, InvitePda(invite_of)) THEN Fail("AccountNotInitialized", st)
  ELSE IF Exists(st.agents, AgentPda(agent)) THEN Fail("AccountAlreadyInUse", st)
  ELSE LET st1 == [st EXCEPT !.agents = InitAccount(@, AgentPda(agent), ZeroAgentAccount)]
           inviter_agent == st.agents[AgentPda(inviter)]
       IN IF AgentPda(inviter_agent.wallet) # AgentPda(inviter) THEN Fail("ConstraintSeeds", st1)
          ELSE IF InvitePda(inviter_agent.wallet) # InvitePda(invite_of) THEN Fail("ConstraintSeeds", st1)
          ELSE Ok(st1)

\* Mutant: the caller-supplied code is not compared with anything.
register_agent_with_invite_requires_NoCode(inviter_agent, invite_record, agent, invite_code) ==
  IF ~(inviter_agent.wallet # agent) THEN "SelfReferralNotAllowed"
  ELSE IF ~invite_record.is_active THEN "InviteInactive"
  ELSE IF invite_record.inviter_wallet # inviter_agent.wallet THEN "InvalidInviteCode"
  ELSE "Ok"

\* The require! checks at the head of the handler: the error of the first one
\* that fails, or "Ok".
register_agent_with_invite_requires(inviter_agent, invite_record, agent, invite_code) ==
  IF ~(inviter_agent.wallet # agent) THEN "SelfReferralNotAllowed"
  ELSE IF ~invite_record.is_active THEN "InviteInactive"
  ELSE IF invite_record.inviter_wallet # inviter_agent.wallet THEN "InvalidInviteCode"
  ELSE IF ~(invite_code = to_bytes(inviter_agent.wallet)) THEN "InvalidInviteCode"
  ELSE IF ~(invite_record.invite_code = invite_code) THEN "InvalidInviteCode"
  ELSE "Ok"

\* Mutant: the division is made before the multiplication.
invitee_reward_of_DivFirst(base_reward_unit) ==
  LET d == checked_div(base_reward_unit, 2)
  IN IF d = <<>> THEN <<>> ELSE checked_mul(d[1], 3, U64Max)

\* invitee_reward: base_reward_unit.checked_mul(3)?.checked_div(2)?
invitee_reward_of(base_reward_unit) ==
  LET m == checked_mul(base_reward_unit, 3, U64Max)
  IN IF m = <<>> THEN <<>> ELSE checked_div(m[1], 2)

\* Mutant: the inviter is paid the whole base reward.
inviter_bonus_of_Whole(base_reward_unit) == base_reward_unit

inviter_bonus_of(base_reward_unit) == base_reward_unit \div 2

register_agent_with_invite_handler(st, agent, inviter, invite_of, invite_code) ==
  LET p == st.protocol[ProtocolPda]
      inviter_agent == st.agents[AgentPda(inviter)]
      invite_record == st.invites[InvitePda(invite_of)]
      req == register_agent_with_invite_requires(inviter_agent, invite_record, agent, invite_code)
      invitee_reward == invitee_reward_of(p.base_reward_unit)
      inviter_bonus == inviter_bonus_of(p.base_reward_unit)
  IN IF req # "Ok" THEN Fail(req, st)
     ELSE IF invitee_reward = <<>> THEN Fail("MathOverflow", st)
     ELSE
       LET st1 == [st EXCEPT !.agents[AgentPda(agent)] =
                     [@ EXCEPT !.layout_version = ACCOUNT_LAYOUT_V1,
                               !.wallet = agent,
                               !.clips_balance = invitee_reward[1],
                               !.efficiency_tier = 0,
                               !.tasks_completed = 0,
                               !.invites_sent = 0,
                               !.invites_redeemed = 1,
                               !.invited_by = inviter_agent.wallet]]
           clips_balance == checked_add(inviter_agent.clips_balance, inviter_bonus, U64Max)
       IN IF clips_balance = <<>> THEN Fail("MathOverflow", st1)
          ELSE
            LET st2 == [st1 EXCEPT !.agents[AgentPda(inviter)].clips_balance = clips_balance[1]]
                invites_sent == checked_add(inviter_agent.invites_sent, 1, U32Max)
            IN IF invites_sent = <<>> THEN Fail("MathOverflow", st2)
               ELSE
                 LET st3 == [st2 EXCEPT !.agents[AgentPda(inviter)].invites_sent = invites_sent[1]]
                     invites_redeemed == checked_add(invite_record.invites_redeemed, 1, U32Max)
                 IN IF invites_redeemed = <<>> THEN Fail("MathOverflow", st3)
                    ELSE
                      LET st4 == [st3 EXCEPT !.invites[InvitePda(invite_of)].invites_redeemed =
                                               invites_redeemed[1]]
                          total_agents == checked_add(p.total_agents, 1, U32Max)
                      IN IF total_agents = <<>> THEN Fail("MathOverflow", st4)
                         ELSE
                           LET st5 == [st4 EXCEPT !.protocol[ProtocolPda].total_agents =
                                                    total_agents[1]]
                               sum1 == checked_add(p.total_clips_distributed, invitee_reward[1], U64Max)
                               sum2 == IF sum1 = <<>> THEN <<>>
                                       ELSE checked_add(sum1[1], inviter_bonus, U64Max)
                           IN IF sum2 = <<>> THEN Fail("MathOverflow", st5)
                              ELSE Ok([st5 EXCEPT
                                        !.protocol[ProtocolPda].total_clips_distributed = sum2[1]])

register_agent_with_invite(st, agent, inviter, invite_of, invite_code) ==
  LET a == RegisterAgentWithInvite_accounts(st, agent, inviter, invite_of)
  IN IF a.err # "Ok" THEN a
     ELSE register_agent_with_invite_handler(a.st, agent, inviter, invite_of, invite_code)

(***************************************************************************)
(* create_task                                                             *)
(***************************************************************************)
\* Mutant: the authority constraint on the Protocol account is dropped.
CreateTask_accounts_NoAuthority(st, authority, task_id) ==
  IF ~Exists(st.protocol, ProtocolPda) THEN Fail("AccountNotInitialized", st)
  ELSE IF Exists(st.tasks, TaskPda(task_id)) THEN Fail("AccountAlreadyInUse", st)
  ELSE Ok([st EXCEPT !.tasks = InitAccount(@, TaskPda(task_id), ZeroTaskRecord)])

CreateTask_accounts(st, authority, task_id) ==
  IF ~Exists(st.protocol, ProtocolPda) THEN Fail("AccountNotInitialized", st)
  ELSE IF Exists(st.tasks, TaskPda(task_id)) THEN Fail("AccountAlreadyInUse", st)
  ELSE LET st1 == [st EXCEPT !.tasks = InitAccount(@, TaskPda(task_id), ZeroTaskRecord)]
       IN IF ~(st.protocol[ProtocolPda].authority = authority) THEN Fail("Unauthorized", st1)
          ELSE Ok(st1)

\* Mutant: total_tasks is not incremented.
create_task_handler_NoCount(st, authority, task_id, reward_clips, max_claims, min_tier, required_task_id) ==
  IF required_task_id # NO_PREREQ_TASK_ID /\ ~(required_task_id # task_id)
  THEN Fail("InvalidTaskPrerequisite", st)
  ELSE Ok([st EXCEPT !.tasks[TaskPda(task_id)] =
             [@ EXCEPT !.task_id = task_id,
                       !.creator = authority,
                       !.reward_clips = reward_clips,
                       !.max_claims = max_claims,
                       !.current_claims = 0,
                       !.is_active = TRUE,
                       !.min_tier = min_tier,
                       !.required_task_id = required_task_id]])

\* Mutant: a prerequisite must name an existing task.
create_task_handler_PrereqMustExist(st, authority, task_id, reward_clips, max_claims, min_tier, required_task_id) ==
  IF required_task_id # NO_PREREQ_TASK_ID
     /\ (~(required_task_id # task_id) \/ ~Exists(st.tasks, TaskPda(required_task_id)))
  THEN Fail("InvalidTaskPrerequisite", st)
  ELSE
    LET p == st.protocol[ProtocolPda]
        st1 == [st EXCEPT !.tasks[TaskPda(task_id)] =
                  [@ EXCEPT !.task_id = task_id,
                            !.creator = authority,
                            !.reward_clips = reward_clips,
                            !.max_claims = max_claims,
                            !.current_claims = 0,
                            !.is_active = TRUE,
                            !.min_tier = min_tier,
                            !.required_task_id = required_task_id]]
        total_tasks == checked_add(p.total_tasks, 1, U32Max)
    IN IF total_tasks = <<>> THEN Fail("MathOverflow", st1)
       ELSE Ok([st1 EXCEPT !.protocol[ProtocolPda].total_tasks = total_tasks[1]])

create_task_handler(st, authority, task_id, reward_clips, max_claims, min_tier, required_task_id) ==
  IF required_task_id # NO_PREREQ_TASK_ID /\ ~(required_task_id # task_id)
  THEN Fail("InvalidTaskPrerequisite", st)
  ELSE
    LET p == st.protocol[ProtocolPda]
        st1 == [st EXCEPT !.tasks[TaskPda(task_id)] =
                  [@ EXCEPT !.task_id = task_id,
                            !.creator = authority,
                            !.reward_clips = reward_clips,
                            !.max_claims = max_claims,
                            !.current_claims = 0,
                            !.is_active = TRUE,
                            !.min_tier = min_tier,
                            !.required_task_id = required_task_id]]
        total_tasks == checked_add(p.total_tasks, 1, U32Max)
    IN IF total_tasks = <<>> THEN Fail("MathOverflow", st1)
       ELSE Ok([st1 EXCEPT !.protocol[ProtocolPda].total_tasks = total_tasks[1]])

create_task(st, authority, task_id, reward_clips, max_claims, min_tier, required_task_id) ==
  LET a == CreateTask_accounts(st, authority, task_id)
  IN IF a.err # "Ok" THEN a
     ELSE create_task_handler(a.st, authority, task_id, reward_clips, max_claims,
                              min_tier, required_task_id)

(***************************************************************************)
(* deactivate_task                                                         *)
(***************************************************************************)
DeactivateTask_accounts(st, authority, task_id) ==
  IF ~Exists(st.protocol, ProtocolPda) THEN Fail("AccountNotInitialized", st)
  ELSE IF ~Exists(st.tasks, TaskPda(task_id)) THEN Fail("AccountNotInitialized", st)
  ELSE IF ~(st.protocol[ProtocolPda].authority = authority) THEN Fail("Unauthorized", st)
  ELSE Ok(st)

\* Mutant: deactivation also clears the reward of the task.
deactivate_task_handler_ClearsReward(st, task_id) ==
  Ok([st EXCEPT !.tasks[TaskPda(task_id)].is_active = FALSE,
                !.tasks[TaskPda(task_id)].reward_clips = 0])

deactivate_task_handler(st, task_id) ==
  Ok([st EXCEPT !.tasks[TaskPda(task_id)].is_active = FALSE])

deactivate_task(st, authority, task_id) ==
  LET a == DeactivateTask_accounts(st, authority, task_id)
  IN IF a.err # "Ok" THEN a ELSE deactivate_task_handler(a.st, task_id)

(***************************************************************************)
(* submit_proof                                                            *)
(* prereq is remaining_accounts.first(): NoAccount or the address of the   *)
(* account the caller supplies as its proof of the prerequisite task.      *)
(***************************************************************************)
\* Mutant: the Claim address is not created with `init`, so an existing Claim
\* does not stop the transaction.
SubmitProof_accounts_NoInit(st, agent, task_id) ==
  IF ~Exists(st.protocol, ProtocolPda) THEN Fail("AccountNotInitialized", st)
  ELSE IF ~Exists(st.tasks, TaskPda(task_id)) THEN Fail("AccountNotInitialized", st)
  ELSE IF ~Exists(st.agents, AgentPda(agent)) THEN Fail("AccountNotInitialized", st)
  ELSE Ok([st EXCEPT !.claims = InitAccount(@, ClaimPda(task_id, agent), ZeroClaimRecord)])

SubmitProof_accounts(st, agent, task_id) ==
  IF ~Exists(st.protocol, ProtocolPda) THEN Fail("AccountNotInitialized", st)
  ELSE IF ~Exists(st.tasks, TaskPda(task_id)) THEN Fail("AccountNotInitialized", st)
  ELSE IF ~Exists(st.agents, AgentPda(agent)) THEN Fail("AccountNotInitialized", st)
  ELSE IF Exists(st.claims, ClaimPda(task_id, agent)) THEN Fail("AccountAlreadyInUse", st)
  ELSE Ok([st EXCEPT !.claims = InitAccount(@, ClaimPda(task_id, agent), ZeroClaimRecord)])

\* prerequisite_account.owner == program id: the address holds a record of the program.
OwnedByProgram(st, addr) ==
  \/ Exists(st.protocol, addr) \/ Exists(st.agents, addr) \/ Exists(st.tasks, addr)
  \/ Exists(st.claims, addr) \/ Exists(st.invites, addr)

\* Mutant: the supplied account is not checked to hold a record (owner and
\* deserialization checks missing); a matching address is enough.
prerequisite_check_NoRecord(st, task, agent, prereq) ==
  IF task.required_task_id # NO_PREREQ_TASK_ID THEN
    LET expected_claim_pda == ClaimPda(task.required_task_id, agent)
    IN IF prereq = NoAccount THEN "MissingRequiredTaskProof"
       ELSE IF prereq # expected_claim_pda THEN "InvalidPrerequisiteAccount"
       ELSE "Ok"
  ELSE "Ok"

\* Mutant: the supplied address is not compared with the re-derived address.
prerequisite_check_NoKeyCheck(st, task, agent, prereq) ==
  IF task.required_task_id # NO_PREREQ_TASK_ID THEN
    IF prereq = NoAccount THEN "MissingRequiredTaskProof"
    ELSE IF ~OwnedByProgram(st, prereq) THEN "MissingRequiredTaskProof"
    ELSE IF ~Exists(st.claims, prereq) THEN "MissingRequiredTaskProof"
    ELSE LET prerequisite_claim == st.claims[prereq]
         IN IF ~(prerequisite_claim.task_id = task.required_task_id)
            THEN "InvalidPrerequisiteAccount"
            ELSE IF prerequisite_claim.agent # agent THEN "InvalidPrerequisiteAccount"
            ELSE "Ok"
  ELSE "Ok"

\* The prerequisite verification of the handler: the error of the first check
\* that fails, or "Ok".
prerequisite_check(st, task, agent, prereq) ==
  IF task.required_task_id # NO_PREREQ_TASK_ID THEN
    LET expected_claim_pda == ClaimPda(task.required_task_id, agent)
    IN IF prereq = NoAccount THEN "MissingRequiredTaskProof"
       ELSE IF prereq # expected_claim_pda THEN "InvalidPrerequisiteAccount"
       ELSE IF ~OwnedByProgram(st, prereq) THEN "MissingRequiredTaskProof"
       ELSE IF ~Exists(st.claims, prereq) THEN "MissingRequiredTaskProof"
       ELSE LET prerequisite_claim == st.claims[prereq]
            IN IF ~(prerequisite_claim.task_id = task.required_task_id)
               THEN "InvalidPrerequisiteAccount"
               ELSE IF prerequisite_claim.agent # agent THEN "InvalidPrerequisiteAccount"
               ELSE "Ok"
  ELSE "Ok"

\* Mutant: the capacity check is missing.
submit_proof_requires_NoCapacity(st, agent, task_id, prereq) ==
  LET task == st.tasks[TaskPda(task_id)]
      agent_account == st.agents[AgentPda(agent)]
      pre == prerequisite_check(st, task, agent, prereq)
  IN IF ~(agent_account.efficiency_tier >= task.min_tier) THEN "TierTooLow"
     ELSE IF pre # "Ok" THEN pre
     ELSE IF ~task.is_active THEN "TaskInactive"
     ELSE "Ok"

\* Mutant: the is_active check is missing.
submit_proof_requires_NoActive(st, agent, task_id, prereq) ==
  LET task == st.tasks[TaskPda(task_id)]
      agent_account == st.agents[AgentPda(agent)]
      pre == prerequisite_check(st, task, agent, prereq)
  IN IF ~(agent_account.efficiency_tier >= task.min_tier) THEN "TierTooLow"
     ELSE IF pre # "Ok" THEN pre
     ELSE IF ~(task.current_claims < task.max_claims) THEN "TaskFullyClaimed"
     ELSE "Ok"

\* Mutant: the is_active check is made first, before the tier check.
submit_proof_requires_ActiveFirst(st, agent, task_id, prereq) ==
  LET task == st.tasks[TaskPda(task_id)]
      agent_account == st.agents[AgentPda(agent)]
      pre == prerequisite_check(st, task, agent, prereq)
  IN IF ~task.is_active THEN "TaskInactive"
     ELSE IF ~(agent_account.efficiency_tier >= task.min_tier) THEN "TierTooLow"
     ELSE IF pre # "Ok" THEN pre
     ELSE IF ~(task.current_claims < task.max_claims) THEN "TaskFullyClaimed"
     ELSE "Ok"

\* Mutant: the tier check is missing.
submit_proof_requires_NoTier(st, agent, task_id, prereq) ==
  LET task == st.tasks[TaskPda(task_id)]
      pre == prerequisite_check(st, task, agent, prereq)
  IN IF pre # "Ok" THEN pre
     ELSE IF ~task.is_active THEN "TaskInactive"
     ELSE IF ~(task.current_claims < task.max_claims) THEN "TaskFullyClaimed"
     ELSE "Ok"

\* The read-only block at the head of the handler.
submit_proof_requires(st, agent, task_id, prereq) ==
  LET task == st.tasks[TaskPda(task_id)]
      agent_account == st.agents[AgentPda(agent)]
      pre == prerequisite_check(st, task, agent, prereq)
  IN IF ~(agent_account.efficiency_tier >= task.min_tier) THEN "TierTooLow"
     ELSE IF pre # "Ok" THEN pre
     ELSE IF ~task.is_active THEN "TaskInactive"
     ELSE IF ~(task.current_claims < task.max_claims) THEN "TaskFullyClaimed"
     ELSE "Ok"

submit_proof_handler(st, agent, task_id, prereq) ==
  LET req == submit_proof_requires(st, agent, task_id, prereq)
      task == st.tasks[TaskPda(task_id)]
      agent_account == st.agents[AgentPda(agent)]
      p == st.protocol[ProtocolPda]
  IN IF req # "Ok" THEN Fail(req, st)
     ELSE
       LET current_claims == checked_add(task.current_claims, 1, U16Max)
       IN IF current_claims = <<>> THEN Fail("MathOverflow", st)
          ELSE
            LET st1 == [st EXCEPT !.tasks[TaskPda(task_id)].current_claims = current_claims[1]]
                clips_balance == checked_add(agent_account.clips_balance, task.reward_clips, U64Max)
            IN IF clips_balance = <<>> THEN Fail("MathOverflow", st1)
               ELSE
                 LET st2 == [st1 EXCEPT !.agents[AgentPda(agent)].clips_balance = clips_balance[1]]
                     tasks_completed == checked_add(agent_account.tasks_completed, 1, U32Max)
                 IN IF tasks_completed = <<>> THEN Fail("MathOverflow", st2)
                    ELSE
                      LET st3 == [st2 EXCEPT !.agents[AgentPda(agent)].tasks_completed =
                                               tasks_completed[1]]
                          total_clips == checked_add(p.total_clips_distributed,
                                                     task.reward_clips, U64Max)
                      IN IF total_clips = <<>> THEN Fail("MathOverflow", st3)
                         ELSE
                           LET st4 == [st3 EXCEPT
                                         !.protocol[ProtocolPda].total_clips_distributed =
                                           total_clips[1]]
                           IN Ok([st4 EXCEPT !.claims[ClaimPda(task_id, agent)] =
                                    [@ EXCEPT !.layout_version = ACCOUNT_LAYOUT_V1,
                                              !.task_id = task_id,
                                              !.agent = agent,
                                              !.clips_awarded = task.reward_clips]])

submit_proof(st, agent, task_id, prereq) ==
  LET a == SubmitProof_accounts(st, agent, task_id)
  IN IF a.err # "Ok" THEN a ELSE submit_proof_handler(a.st, agent, task_id, prereq)

(***************************************************************************)
(* Transactions are atomic: a transaction that returns an error leaves     *)
(* every record as it was; a successful one stores its working state.      *)
(***************************************************************************)
\* Mutant: a failed transaction keeps the writes made before the failure.
Commit_Partial(st, tx) == tx.st

Commit(st, tx) == IF tx.err = "Ok" THEN tx.st ELSE st

Apply(tx) ==
  LET st == Commit(St, tx)
  IN /\ protocol' = st.protocol
     /\ agents' = st.agents
     /\ tasks' = st.tasks
     /\ claims' = st.claims
     /\ invites' = st.invites

(***************************************************************************)
(* The state machine: one action per instruction, for every signer and     *)
(* every argument of the input sets.                                       *)
(***************************************************************************)
NoRecords == [a \in {} |-> 0]

Init ==
  /\ protocol = NoRecords
  /\ agents = NoRecords
  /\ tasks = NoRecords
  /\ claims = NoRecords
  /\ invites = NoRecords

Initialize ==
  \E authority \in Authorities, base_reward_unit \in BaseRewardUnits :
    Apply(initialize(St, authority, base_reward_unit))

RegisterAgent ==
  \E agent \in Identities : Apply(register_agent(St, agent))

CreateInvite ==
  \E agent \in Identities : Apply(create_invite(St, agent))

RegisterAgentWithInvite ==
  \E agent \in Identities, inviter \in Identities, invite_of \in Identities,
     invite_code \in InviteCodes :
    Apply(register_agent_with_invite(St, agent, inviter, invite_of, invite_code))

CreateTask ==
  \E authority \in Identities, task_id \in TaskIds, params \in TaskParams,
     required_task_id \in TaskIds \cup {NO_PREREQ_TASK_ID} :
    Apply(create_task(St, authority, task_id, params[1], params[2], params[3],
                      required_task_id))

DeactivateTask ==
  \E authority \in Identities, task_id \in TaskIds :
    Apply(deactivate_task(St, authority, task_id))

SubmitProof ==
  \E agent \in Identities, task_id \in TaskIds, prereq \in PrereqRefs :
    Apply(submit_proof(St, agent, task_id, prereq))

Next ==
  \/ Initialize
  \/ RegisterAgent
  \/ CreateInvite
  \/ RegisterAgentWithInvite
  \/ CreateTask
  \/ DeactivateTask
  \/ SubmitProof

Spec == Init /\ [][Next]_vars

(***************************************************************************)
(* Vocabulary of the properties.                                           *)
(***************************************************************************)
HasProtocol == Exists(protocol, ProtocolPda)
Protocol == protocol[ProtocolPda]
HasAgent(w) == Exists(agents, AgentPda(w))
Agent(w) == agents[AgentPda(w)]
HasTask(t) == Exists(tasks, TaskPda(t))
Task(t) == tasks[TaskPda(t)]
HasClaim(t, w) == Exists(claims, ClaimPda(t, w))
Claim(t, w) == claims[ClaimPda(t, w)]
HasInvite(w) == Exists(invites, InvitePda(w))
Invite(w) == invites[InvitePda(w)]

RECURSIVE SumOver(_, _)
\* The sum of f[a] over the addresses a of the set S.
SumOver(f, S) ==
  IF S = {} THEN 0
  ELSE LET a == CHOOSE x \in S : TRUE IN f[a] + SumOver(f, S \ {a})

\* A submit_proof transaction of agent w on task t with reference prereq.
SubmitTx(w, t, prereq) == submit_proof(St, w, t, prereq)

(***************************************************************************)
(* C1.  Once a Claim exists for a (task_id, agent) pair, every submit_proof *)
(* for that pair - whatever reference it supplies and whatever the task's  *)
(* active / capacity state - fails with the creation conflict of the Claim *)
(* address and leaves every record (current_claims, clips_balance,         *)
(* tasks_completed, total_clips_distributed) unchanged; so at most one     *)
(* submit_proof per pair ever succeeds.                                    *)
(***************************************************************************)
C1_NoDoubleClaim ==
  \A t \in TaskIds, w \in Identities, prereq \in PrereqRefs :
    HasClaim(t, w) =>
      LET tx == SubmitTx(w, t, prereq)
          after == Commit(St, tx)
      IN /\ tx.err = "AccountAlreadyInUse"
         /\ after.tasks[TaskPda(t)].current_claims = Task(t).current_claims
         /\ after.agents[AgentPda(w)].clips_balance = Agent(w).clips_balance
         /\ after.agents[AgentPda(w)].tasks_completed = Agent(w).tasks_completed
         /\ after.protocol[ProtocolPda].total_clips_distributed =
              Protocol.total_clips_distributed
         /\ after = St

\* A pair is claimed while its task is still active and has room for more
\* claims: only the creation conflict stands in the way of a second award.
C1_Witness ==
  \E t \in TaskIds, w \in Identities :
    /\ HasClaim(t, w)
    /\ Task(t).is_active
    /\ Task(t).current_claims < Task(t).max_claims

(***************************************************************************)
(* C2.  Every Task has current_claims <= max_claims in every reachable     *)
(* state; and right after a submit_proof has succeeded on a task with      *)
(* max_claims = 1, a submit_proof on it by any different eligible agent    *)
(* (registered, tier sufficient, prerequisite proof supplied) fails with   *)
(* TaskFullyClaimed.                                                       *)
(***************************************************************************)
EligibleFor(st, w, t, prereq) ==
  /\ Exists(st.agents, AgentPda(w))
  /\ st.agents[AgentPda(w)].efficiency_tier >= st.tasks[TaskPda(t)].min_tier
  /\ LET req == st.tasks[TaskPda(t)].required_task_id
     IN req # NO_PREREQ_TASK_ID =>
          /\ Exists(st.claims, ClaimPda(req, w))
          /\ prereq = ClaimPda(req, w)

C2_ClaimsBounded(st) ==
  \A t \in TaskIds :
    Exists(st.tasks, TaskPda(t)) =>
      st.tasks[TaskPda(t)].current_claims <= st.tasks[TaskPda(t)].max_claims

C2_CapacityRespected ==
  /\ C2_ClaimsBounded(St)
  /\ \A t \in TaskIds, w \in Identities, prereq \in PrereqRefs :
       LET tx == SubmitTx(w, t, prereq)
           after == Commit(St, tx)
       IN (tx.err = "Ok" /\ Task(t).max_claims = 1) =>
            /\ Task(t).current_claims = 0
            /\ after.tasks[TaskPda(t)].current_claims = 1
            /\ \A w2 \in Identities \ {w}, prereq2 \in PrereqRefs :
                 EligibleFor(after, w2, t, prereq2) =>
                   submit_proof(after, w2, t, prereq2).err = "TaskFullyClaimed"

\* A single-claim task has been claimed and a second, different agent is
\* eligible for it.
C2_Witness ==
  \E t \in TaskIds, w \in Identities, w2 \in Identities, prereq2 \in PrereqRefs :
    /\ w2 # w
    /\ HasTask(t) /\ Task(t).max_claims = 1 /\ Task(t).current_claims = 1
    /\ HasClaim(t, w)
    /\ Task(t).is_active
    /\ EligibleFor(St, w2, t, prereq2)
    /\ SubmitTx(w2, t, prereq2).err = "TaskFullyClaimed"

(***************************************************************************)
(* C3.  In every reachable state Protocol.total_clips_distributed equals   *)
(* the sum of the rewards credited - the base reward of every plain        *)
(* registration, the invitee reward of every invite registration, the      *)
(* inviter bonus of every redeemed invite and the reward of every Claim -  *)
(* and equals the sum of clips_balance over all Agent records.             *)
(***************************************************************************)
BalanceOf == [a \in DOMAIN agents |-> agents[a].clips_balance]

RegistrationRewardOf ==
  [a \in DOMAIN agents |->
     IF agents[a].invited_by = DefaultPubkey
     THEN Protocol.base_reward_unit
     ELSE (Protocol.base_reward_unit * 3) \div 2]

InviterBonusOf ==
  [a \in DOMAIN agents |->
     IF agents[a].invited_by = DefaultPubkey
     THEN 0
     ELSE Protocol.base_reward_unit \div 2]

AwardOf == [c \in DOMAIN claims |-> claims[c].clips_awarded]

CreditedRewards ==
  SumOver(RegistrationRewardOf, DOMAIN agents) + SumOver(InviterBonusOf, DOMAIN agents)
    + SumOver(AwardOf, DOMAIN claims)

C3_DistributedMatchesCredits ==
  IF HasProtocol
  THEN /\ Protocol.total_clips_distributed = CreditedRewards
       /\ Protocol.total_clips_distributed = SumOver(BalanceOf, DOMAIN agents)
  ELSE agents = NoRecords /\ claims = NoRecords

\* All three kinds of credit have happened: a plain registration, an invite
\* registration with its inviter bonus, and a task reward.
C3_Witness ==
  /\ HasProtocol
  /\ \E w \in Identities : HasAgent(w) /\ Agent(w).invited_by = DefaultPubkey
  /\ \E w \in Identities : HasAgent(w) /\ Agent(w).invited_by # DefaultPubkey
  /\ claims # NoRecords
  /\ Protocol.total_clips_distributed > 0

(***************************************************************************)
(* C4.  In every reachable state Protocol.total_agents equals the number   *)
(* of Agent records, and a registration (plain or by invite) that fails    *)
(* changes neither the counter nor the set of Agent records.               *)
(***************************************************************************)
C4_TotalAgentsCounts ==
  /\ HasProtocol => Protocol.total_agents = Cardinality(DOMAIN agents)
  /\ ~HasProtocol => agents = NoRecords
  /\ \A w \in Identities :
       LET tx == register_agent(St, w)
           after == Commit(St, tx)
       IN IF tx.err = "Ok"
          THEN /\ after.protocol[ProtocolPda].total_agents = Protocol.total_agents + 1
               /\ DOMAIN after.agents = DOMAIN agents \cup {AgentPda(w)}
          ELSE after.protocol = protocol /\ after.agents = agents
  /\ \A w \in Identities, inviter \in Identities, invite_of \in Identities,
        invite_code \in InviteCodes :
       LET tx == register_agent_with_invite(St, w, inviter, invite_of, invite_code)
           after == Commit(St, tx)
       IN IF tx.err = "Ok"
          THEN /\ after.protocol[ProtocolPda].total_agents = Protocol.total_agents + 1
               /\ DOMAIN after.agents = DOMAIN agents \cup {AgentPda(w)}
          ELSE after.protocol = protocol /\ after.agents = agents

\* Agents have been registered by both paths and a further registration fails.
C4_Witness ==
  /\ HasProtocol
  /\ Protocol.total_agents = 2
  /\ \E w \in Identities : HasAgent(w) /\ Agent(w).invited_by # DefaultPubkey
  /\ \E w \in Identities : register_agent(St, w).err # "Ok"

(***************************************************************************)
(* Prerequisite vocabulary.                                                *)
(***************************************************************************)
HasPrerequisite(t) == HasTask(t) /\ Task(t).required_task_id # NO_PREREQ_TASK_ID
PassesTier(w, t) == HasAgent(w) /\ Agent(w).efficiency_tier >= Task(t).min_tier

\* The additions of a submit_proof of agent w on task t stay in range.
SubmitInRange(w, t) ==
  /\ Task(t).current_claims + 1 <= U16Max
  /\ Agent(w).clips_balance + Task(t).reward_clips <= U64Max
  /\ Agent(w).tasks_completed + 1 <= U32Max
  /\ Protocol.total_clips_distributed + Task(t).reward_clips <= U64Max

(***************************************************************************)
(* C5 as stated: on a task B with prerequisite A, every submit_proof by a  *)
(* registered agent (passing the tier check) that has no Claim for         *)
(* (A, agent) fails with MissingRequiredTaskProof.  This fails: the agent  *)
(* may supply a reference other than the address of its own Claim for A,   *)
(* and is then rejected with InvalidPrerequisiteAccount.                   *)
(***************************************************************************)
C5_Original ==
  \A b \in TaskIds, w \in Identities, prereq \in PrereqRefs :
    ( /\ HasPrerequisite(b)
      /\ PassesTier(w, b)
      /\ ~HasClaim(Task(b).required_task_id, w) )
    => SubmitTx(w, b, prereq).err = "MissingRequiredTaskProof"

(***************************************************************************)
(* C5, amended.  On a task B with prerequisite A, a submit_proof by a      *)
(* registered agent passing the tier check that has no Claim for           *)
(* (A, agent) fails: with MissingRequiredTaskProof when it supplies no     *)
(* reference or the derived address of its own Claim for A, and with       *)
(* InvalidPrerequisiteAccount when it supplies any other reference.  Once  *)
(* the agent has completed A, submit_proof on B supplying its Claim for A  *)
(* succeeds when the other checks pass.  In every reachable state a Claim  *)
(* for (B, agent) is accompanied by a Claim for (A, agent).                *)
(***************************************************************************)
C5_PrerequisiteChain ==
  /\ \A b \in TaskIds, w \in Identities, prereq \in PrereqRefs :
       ( /\ HasPrerequisite(b)
         /\ PassesTier(w, b)
         /\ ~HasClaim(Task(b).required_task_id, w) )
       => SubmitTx(w, b, prereq).err =
            IF prereq \in {NoAccount, ClaimPda(Task(b).required_task_id, w)}
            THEN "MissingRequiredTaskProof"
            ELSE "InvalidPrerequisiteAccount"
  /\ \A b \in TaskIds, w \in Identities :
       ( /\ HasPrerequisite(b)
         /\ PassesTier(w, b)
         /\ HasClaim(Task(b).required_task_id, w)
         /\ ~HasClaim(b, w)
         /\ Task(b).is_active
         /\ Task(b).current_claims < Task(b).max_claims
         /\ SubmitInRange(w, b) )
       => LET tx == SubmitTx(w, b, ClaimPda(Task(b).required_task_id, w))
          IN /\ tx.err = "Ok"
             /\ Exists(Commit(St, tx).claims, ClaimPda(b, w))
  /\ \A b \in TaskIds, w \in Identities :
       (HasPrerequisite(b) /\ HasClaim(b, w)) => HasClaim(Task(b).required_task_id, w)

\* An agent has completed a prerequisite and then the task that requires it,
\* while another registered agent has completed neither.
C5_Witness ==
  \E b \in TaskIds, w \in Identities, w2 \in Identities :
    /\ HasPrerequisite(b)
    /\ HasClaim(Task(b).required_task_id, w)
    /\ HasClaim(b, w)
    /\ PassesTier(w2, b)
    /\ ~HasClaim(Task(b).required_task_id, w2)
    /\ SubmitTx(w2, b, NoAccount).err = "MissingRequiredTaskProof"

(***************************************************************************)
(* C6 as stated: on a task with prerequisite A, every submit_proof (by a   *)
(* registered agent passing the tier check) whose supplied reference is    *)
(* not the Claim for (A, caller) is rejected with                          *)
(* InvalidPrerequisiteAccount.  This fails: a caller that already holds a  *)
(* Claim for the task is rejected by the creation conflict of the new      *)
(* Claim, before the handler looks at the reference.                       *)
(***************************************************************************)
C6_Original ==
  \A b \in TaskIds, w \in Identities, prereq \in PrereqRefs :
    ( /\ HasPrerequisite(b)
      /\ PassesTier(w, b)
      /\ prereq # NoAccount
      /\ prereq # ClaimPda(Task(b).required_task_id, w) )
    => SubmitTx(w, b, prereq).err = "InvalidPrerequisiteAccount"

(***************************************************************************)
(* C6, amended.  On a task with prerequisite A, a submit_proof whose       *)
(* supplied reference is not the address of the Claim for (A, caller) -    *)
(* another agent's Claim for A, the caller's Claim for another task, any   *)
(* other account - never succeeds and changes no record; it is rejected    *)
(* with InvalidPrerequisiteAccount whenever the caller is a registered     *)
(* agent that passes the tier check and holds no Claim for the task yet.   *)
(***************************************************************************)
C6_ForeignProofRejected ==
  \A b \in TaskIds, w \in Identities, prereq \in PrereqRefs :
    ( /\ HasPrerequisite(b)
      /\ prereq # NoAccount
      /\ prereq # ClaimPda(Task(b).required_task_id, w) )
    => LET tx == SubmitTx(w, b, prereq)
       IN /\ tx.err # "Ok"
          /\ Commit(St, tx) = St
          /\ (PassesTier(w, b) /\ ~HasClaim(b, w)) =>
               tx.err = "InvalidPrerequisiteAccount"

\* An agent that has not completed A borrows the existing Claim of another
\* agent for A and is rejected.
C6_Witness ==
  \E b \in TaskIds, w \in Identities, w2 \in Identities :
    /\ w # w2
    /\ HasPrerequisite(b)
    /\ HasClaim(Task(b).required_task_id, w2)
    /\ PassesTier(w, b)
    /\ ~HasClaim(Task(b).required_task_id, w)
    /\ Task(b).is_active
    /\ Task(b).current_claims < Task(b).max_claims
    /\ SubmitTx(w, b, ClaimPda(Task(b).required_task_id, w2)).err =
         "InvalidPrerequisiteAccount"

(***************************************************************************)
(* C7.  An agent that redeems its own invite - register_agent_with_invite  *)
(* signed by the owner of the Invite, naming itself as inviter - is        *)
(* rejected with SelfReferralNotAllowed, and no record changes.            *)
(* (The program rejects it, but with the creation conflict of the signer's *)
(* Agent record: the SelfReferralNotAllowed check is never reached.)       *)
(***************************************************************************)
C7_SelfReferralRejected ==
  \A w \in Identities :
    HasInvite(w) =>
      LET tx == register_agent_with_invite(St, w, w, w, to_bytes(w))
      IN tx.err = "SelfReferralNotAllowed" /\ Commit(St, tx) = St

(***************************************************************************)
(* C8.  A successful register_agent_with_invite under base_reward_unit = b *)
(* creates the new Agent with clips_balance = floor(3b/2), adds floor(b/2) *)
(* to the inviter's clips_balance, adds 1 to Protocol.total_agents and     *)
(* adds exactly floor(3b/2) + floor(b/2) to total_clips_distributed        *)
(* (1500, 500 and 2000 for b = 1000).                                      *)
(***************************************************************************)
C8_InviteRewards ==
  \A w \in Identities, inviter \in Identities, invite_of \in Identities,
     invite_code \in InviteCodes :
    LET tx == register_agent_with_invite(St, w, inviter, invite_of, invite_code)
        after == Commit(St, tx)
        b == Protocol.base_reward_unit
    IN tx.err = "Ok" =>
         /\ ~HasAgent(w)
         /\ after.agents[AgentPda(w)].clips_balance = (3 * b) \div 2
         /\ after.agents[AgentPda(inviter)].clips_balance =
              Agent(inviter).clips_balance + (b \div 2)
         /\ after.protocol[ProtocolPda].total_agents = Protocol.total_agents + 1
         /\ after.protocol[ProtocolPda].total_clips_distributed =
              Protocol.total_clips_distributed + ((3 * b) \div 2) + (b \div 2)
         /\ b = 1000 =>
              /\ after.agents[AgentPda(w)].clips_balance = 1500
              /\ after.agents[AgentPda(inviter)].clips_balance =
                   Agent(inviter).clips_balance + 500
              /\ after.protocol[ProtocolPda].total_clips_distributed =
                   Protocol.total_clips_distributed + 2000

\* An invite has been redeemed under b = 1000: inviter and invitee are the
\* only agents and the ledger shows 1000 + 1500 + 500.
C8_Witness ==
  \E w \in Identities, inviter \in Identities :
    /\ HasProtocol /\ Protocol.base_reward_unit = 1000
    /\ HasAgent(w) /\ Agent(w).invited_by = inviter
    /\ Agent(w).clips_balance = 1500
    /\ HasAgent(inviter) /\ Agent(inviter).clips_balance = 1500
    /\ Protocol.total_agents = 2
    /\ Protocol.total_clips_distributed = 3000

\* The same under an odd base_reward_unit, where both divisions truncate.
C8_WitnessOdd ==
  \E w \in Identities :
    /\ HasProtocol /\ Protocol.base_reward_unit % 2 = 1
    /\ HasAgent(w) /\ Agent(w).invited_by # DefaultPubkey

(***************************************************************************)
(* C9.  Whenever an instruction has passed its validation and one of its   *)
(* checked additions would exceed the maximum of its counter or balance,   *)
(* the transaction fails with MathOverflow and every record - those the    *)
(* handler had already written and the record being created included - is  *)
(* exactly as before.                                                      *)
(***************************************************************************)
C9_RegisterAgent ==
  \A w \in Identities :
    ( /\ RegisterAgent_accounts(St, w).err = "Ok"
      /\ \/ Protocol.total_agents + 1 > U32Max
         \/ Protocol.total_clips_distributed + Protocol.base_reward_unit > U64Max )
    => LET tx == register_agent(St, w)
       IN tx.err = "MathOverflow" /\ Commit(St, tx) = St

C9_RegisterAgentWithInvite ==
  \A w \in Identities, inviter \in Identities, invite_of \in Identities,
     invite_code \in InviteCodes :
    ( /\ RegisterAgentWithInvite_accounts(St, w, inviter, invite_of).err = "Ok"
      /\ register_agent_with_invite_requires(Agent(inviter), Invite(invite_of), w,
                                             invite_code) = "Ok"
      /\ LET b == Protocol.base_reward_unit
         IN \/ Agent(inviter).clips_balance + (b \div 2) > U64Max
            \/ Agent(inviter).invites_sent + 1 > U32Max
            \/ Invite(invite_of).invites_redeemed + 1 > U32Max
            \/ Protocol.total_agents + 1 > U32Max
            \/ Protocol.total_clips_distributed + ((3 * b) \div 2) + (b \div 2) > U64Max )
    => LET tx == register_agent_with_invite(St, w, inviter, invite_of, invite_code)
       IN tx.err = "MathOverflow" /\ Commit(St, tx) = St

C9_CreateTask ==
  \A a \in Identities, t \in TaskIds, params \in TaskParams,
     required \in TaskIds \cup {NO_PREREQ_TASK_ID} :
    ( /\ CreateTask_accounts(St, a, t).err = "Ok"
      /\ (required = NO_PREREQ_TASK_ID \/ required # t)
      /\ Protocol.total_tasks + 1 > U32Max )
    => LET tx == create_task(St, a, t, params[1], params[2], params[3], required)
       IN tx.err = "MathOverflow" /\ Commit(St, tx) = St

C9_SubmitProof ==
  \A w \in Identities, t \in TaskIds, prereq \in PrereqRefs :
    ( /\ SubmitProof_accounts(St, w, t).err = "Ok"
      /\ submit_proof_requires(St, w, t, prereq) = "Ok"
      /\ ~SubmitInRange(w, t) )
    => LET tx == SubmitTx(w, t, prereq)
       IN tx.err = "MathOverflow" /\ Commit(St, tx) = St

C10_Original ==
  HasProtocol =>
    \A a \in Identities \ {Protocol.authority}, t \in TaskIds :
      /\ HasTask(t) => deactivate_task(St, a, t).err = "Unauthorized"
      /\ \A params \in TaskParams, required \in TaskIds \cup {NO_PREREQ_TASK_ID} :
           create_task(St, a, t, params[1], params[2], params[3], required).err =
             "Unauthorized"

TaskActivity(st) == [t \in DOMAIN st.tasks |-> st.tasks[t].is_active]

C10_Unchanged(tx) ==
  LET after == Commit(St, tx)
  IN /\ tx.err # "Ok"
     /\ after = St
     /\ DOMAIN after.tasks = DOMAIN tasks
     /\ after.protocol[ProtocolPda].total_tasks = Protocol.total_tasks
     /\ TaskActivity(after) = TaskActivity(St)

(***************************************************************************)
(* C10, amended.  create_task and deactivate_task succeed only when the    *)
(* caller's identity equals Protocol.authority.  Called by any other       *)
(* identity they fail, create no Task, and leave total_tasks and every     *)
(* Task's is_active unchanged; the error is Unauthorized for a create_task *)
(* on a task id that has no Task yet and for a deactivate_task on an       *)
(* existing Task, the creation conflict for a create_task on a task id     *)
(* that already has a Task, and the missing-account error for a            *)
(* deactivate_task on a task id that has no Task.                          *)
(***************************************************************************)
C10_AuthorityOnly ==
  HasProtocol =>
    \A a \in Identities, t \in TaskIds :
      LET dx == deactivate_task(St, a, t)
      IN /\ dx.err = "Ok" => a = Protocol.authority
         /\ a # Protocol.authority =>
              /\ C10_Unchanged(dx)
              /\ dx.err = IF HasTask(t) THEN "Unauthorized" ELSE "AccountNotInitialized"
         /\ \A params \in TaskParams, required \in TaskIds \cup {NO_PREREQ_TASK_ID} :
              LET cx == create_task(St, a, t, params[1], params[2], params[3], required)
              IN /\ cx.err = "Ok" => a = Protocol.authority
                 /\ a # Protocol.authority =>
                      /\ C10_Unchanged(cx)
                      /\ cx.err = IF HasTask(t) THEN "AccountAlreadyInUse"
                                  ELSE "Unauthorized"

\* A registered agent that is not the authority is refused both the
\* creation of a task on a free task id and the deactivation of an
\* existing, active task, while the authority is allowed both.
C10_Witness ==
  /\ HasProtocol
  /\ \E a \in Identities \ {Protocol.authority}, t \in TaskIds, t2 \in TaskIds :
       /\ HasAgent(a)
       /\ HasTask(t) /\ Task(t).is_active
       /\ ~HasTask(t2)
       /\ deactivate_task(St, a, t).err = "Unauthorized"
       /\ deactivate_task(St, Protocol.authority, t).err = "Ok"
       /\ \E params \in TaskParams :
            /\ create_task(St, a, t2, params[1], params[2], params[3],
                           NO_PREREQ_TASK_ID).err = "Unauthorized"
            /\ create_task(St, Protocol.authority, t2, params[1], params[2], params[3],
                           NO_PREREQ_TASK_ID).err = "Ok"

(***************************************************************************)
(* C11.  register_agent_with_invite succeeds only if an Invite record      *)
(* exists for the named inviter, that Invite is active, and the stored     *)
(* invite_code, the inviter's key bytes and the supplied code are all      *)
(* equal.  Once the accounts have passed validation, an inactive Invite is *)
(* rejected with InviteInactive and any disagreement among the three codes *)
(* with InvalidInviteCode; a rejected transaction creates no Agent and     *)
(* changes no balance or counter.                                          *)
(***************************************************************************)
InviteTx(w, inviter, invite_of, invite_code) ==
  register_agent_with_invite(St, w, inviter, invite_of, invite_code)

C11_SuccessNeedsInvite ==
  \A w \in Identities, inviter \in Identities, invite_of \in Identities,
     invite_code \in InviteCodes :
    LET tx == InviteTx(w, inviter, invite_of, invite_code)
        after == Commit(St, tx)
    IN /\ tx.err = "Ok" =>
            /\ invite_of = inviter
            /\ HasInvite(inviter)
            /\ Invite(inviter).is_active
            /\ Invite(inviter).invite_code = to_bytes(inviter)
            /\ invite_code = to_bytes(inviter)
       /\ tx.err \in {"InviteInactive", "InvalidInviteCode"} =>
            /\ after = St
            /\ ~Exists(after.agents, AgentPda(w))
       /\ ( /\ RegisterAgentWithInvite_accounts(St, w, inviter, invite_of).err = "Ok"
            /\ Invite(invite_of).is_active
            /\ invite_code # to_bytes(inviter) )
          => tx.err = "InvalidInviteCode"

\* The require! block on the records of a validated transaction, with the
\* Invite's is_active cleared or its stored code replaced.
C11_RequiresOrder ==
  \A w \in Identities, inviter \in Identities, invite_code \in InviteCodes :
    RegisterAgentWithInvite_accounts(St, w, inviter, inviter).err = "Ok" =>
      /\ register_agent_with_invite_requires(
           Agent(inviter), [Invite(inviter) EXCEPT !.is_active = FALSE], w, invite_code)
           = "InviteInactive"
      /\ \A stored \in InviteCodes \cup {to_bytes("w3")} :
           (stored # to_bytes(inviter) \/ invite_code # to_bytes(inviter)) =>
             register_agent_with_invite_requires(
               Agent(inviter), [Invite(inviter) EXCEPT !.invite_code = stored], w,
               invite_code) = "InvalidInviteCode"

C11_InviteChecked ==
  /\ C11_SuccessNeedsInvite
  /\ C11_RequiresOrder

\* An unregistered caller names a registered inviter with an active Invite:
\* the inviter's own code is accepted, another code is rejected.
C11_Witness ==
  \E w \in Identities, inviter \in Identities, wrong \in InviteCodes :
    /\ HasInvite(inviter) /\ Invite(inviter).is_active
    /\ ~HasAgent(w)
    /\ wrong # to_bytes(inviter)
    /\ InviteTx(w, inviter, inviter, to_bytes(inviter)).err = "Ok"
    /\ InviteTx(w, inviter, inviter, wrong).err = "InvalidInviteCode"

(***************************************************************************)
(* C12.  For every identity at most one registration ever succeeds, across *)
(* both paths: a registration succeeds only for an identity without an     *)
(* Agent record and leaves it with one, no transition removes an Agent     *)
(* record, and once the record exists every register_agent and every       *)
(* register_agent_with_invite by that identity fails - with the creation   *)
(* conflict of the Agent address whenever the accounts it names exist -    *)
(* and credits nothing to the caller, to any inviter or to the Protocol    *)
(* counters.                                                               *)
(***************************************************************************)
C12_NothingCredited(after) ==
  /\ after = St
  /\ \A a \in DOMAIN agents : after.agents[a].clips_balance = agents[a].clips_balance
  /\ after.protocol[ProtocolPda].total_agents = Protocol.total_agents
  /\ after.protocol[ProtocolPda].total_clips_distributed = Protocol.total_clips_distributed

C12_Registered ==
  \A w \in Identities :
    /\ LET tx == register_agent(St, w)
       IN IF HasAgent(w)
          THEN tx.err = "AccountAlreadyInUse" /\ C12_NothingCredited(Commit(St, tx))
          ELSE tx.err = "Ok" => Exists(Commit(St, tx).agents, AgentPda(w))
    /\ \A inviter \in Identities, invite_of \in Identities, invite_code \in InviteCodes :
         LET tx == InviteTx(w, inviter, invite_of, invite_code)
         IN IF HasAgent(w)
            THEN /\ tx.err # "Ok"
                 /\ C12_NothingCredited(Commit(St, tx))
                 /\ (HasAgent(inviter) /\ HasInvite(invite_of)) =>
                      tx.err = "AccountAlreadyInUse"
            ELSE tx.err = "Ok" => Exists(Commit(St, tx).agents, AgentPda(w))

C12_AgentsKept ==
  \A w \in Identities :
    HasAgent(w) => Exists(agents', AgentPda(w)) /\ agents'[AgentPda(w)].wallet = w

C12_OneRegistration == [](C12_Registered) /\ [][C12_AgentsKept]_vars

\* A registered agent tries both paths again while another agent holds an
\* active Invite it names with the right code, and the ledger has room.
C12_Witness ==
  \E w \in Identities, inviter \in Identities :
    /\ w # inviter
    /\ HasAgent(w) /\ HasAgent(inviter) /\ HasInvite(inviter)
    /\ Invite(inviter).is_active
    /\ Protocol.total_clips_distributed + 2 * Protocol.base_reward_unit <= U64Max
    /\ InviteTx(w, inviter, inviter, to_bytes(inviter)).err = "AccountAlreadyInUse"
    /\ register_agent(St, w).err = "AccountAlreadyInUse"

(***************************************************************************)
(* C13.  initialize succeeds exactly once: called by any identity while no *)
(* Protocol record exists it creates the record with authority = caller,   *)
(* the given base_reward_unit, all counters 0 and paused = false, and      *)
(* touches nothing else; called once the record exists it fails and leaves *)
(* every record unchanged; and no transition removes the Protocol record   *)
(* or changes its authority or base_reward_unit.                           *)
(***************************************************************************)
C13_Initialize ==
  \A authority \in Identities, base_reward_unit \in BaseRewardUnits :
    LET tx == initialize(St, authority, base_reward_unit)
        after == Commit(St, tx)
    IN IF HasProtocol
       THEN /\ tx.err = "AccountAlreadyInUse"
            /\ after = St
            /\ after.protocol[ProtocolPda] = Protocol
       ELSE /\ tx.err = "Ok"
            /\ after.protocol[ProtocolPda] =
                 [layout_version |-> ACCOUNT_LAYOUT_V1, authority |-> authority,
                  base_reward_unit |-> base_reward_unit, total_agents |-> 0,
                  total_tasks |-> 0, total_clips_distributed |-> 0, paused |-> FALSE]
            /\ after.agents = agents /\ after.tasks = tasks
            /\ after.claims = claims /\ after.invites = invites

C13_AuthorityKept ==
  HasProtocol =>
    /\ Exists(protocol', ProtocolPda)
    /\ protocol'[ProtocolPda].authority = Protocol.authority
    /\ protocol'[ProtocolPda].base_reward_unit = Protocol.base_reward_unit

C13_InitializeOnce == [](C13_Initialize) /\ [][C13_AuthorityKept]_vars

\* The Protocol has been in use - its counters have moved - when another
\* identity calls initialize with another base_reward_unit.
C13_Witness ==
  /\ HasProtocol
  /\ Protocol.total_agents > 0 /\ Protocol.total_tasks > 0
  /\ Protocol.total_clips_distributed > 0
  /\ \E authority \in Identities \ {Protocol.authority},
        base_reward_unit \in BaseRewardUnits \ {Protocol.base_reward_unit} :
       initialize(St, authority, base_reward_unit).err = "AccountAlreadyInUse"

(***************************************************************************)
(* C14.  Each Task follows nonexistent -> active -> inactive only: a Task  *)
(* is created active, a successful deactivate_task leaves it inactive, no  *)
(* transition removes it, and once it is inactive no transition makes it   *)
(* active again, no create_task on its id and no submit_proof on it        *)
(* succeeds, and its current_claims never changes.                         *)
(***************************************************************************)
C14_InactiveRejects ==
  \A t \in TaskIds :
    HasTask(t) =>
      /\ \A a \in Identities :
           LET tx == deactivate_task(St, a, t)
           IN tx.err = "Ok" => ~Commit(St, tx).tasks[TaskPda(t)].is_active
      /\ ~Task(t).is_active =>
           /\ \A w \in Identities, prereq \in PrereqRefs : SubmitTx(w, t, prereq).err # "Ok"
           /\ \A a \in Identities, params \in TaskParams,
                 required \in TaskIds \cup {NO_PREREQ_TASK_ID} :
                create_task(St, a, t, params[1], params[2], params[3], required).err
                  = "AccountAlreadyInUse"

C14_Lifecycle ==
  \A t \in TaskIds :
    /\ (~HasTask(t) /\ Exists(tasks', TaskPda(t))) => tasks'[TaskPda(t)].is_active
    /\ HasTask(t) => Exists(tasks', TaskPda(t))
    /\ (HasTask(t) /\ ~Task(t).is_active) =>
         /\ ~tasks'[TaskPda(t)].is_active
         /\ tasks'[TaskPda(t)].current_claims = Task(t).current_claims

C14_TaskLifecycle == [](C14_InactiveRejects) /\ [][C14_Lifecycle]_vars

\* A task was deactivated after one claim and with room for another; an
\* agent that meets every other condition submits a proof and is rejected
\* because the task is inactive.
C14_Witness ==
  \E t \in TaskIds, w \in Identities, prereq \in PrereqRefs :
    /\ HasTask(t) /\ ~Task(t).is_active
    /\ Task(t).current_claims = 1 /\ Task(t).max_claims > 1
    /\ ~HasClaim(t, w)
    /\ EligibleFor(St, w, t, prereq)
    /\ SubmitTx(w, t, prereq).err = "TaskInactive"

(***************************************************************************)
(* The steps of a submit_proof of agent w on task t that can fail.         *)
(***************************************************************************)
TierFails(w, t) == Agent(w).efficiency_tier < Task(t).min_tier
PrerequisiteFails(w, t, prereq) ==
  /\ HasPrerequisite(t)
  /\ ~(prereq = ClaimPda(Task(t).required_task_id, w)
        /\ HasClaim(Task(t).required_task_id, w))
TaskIsInactive(t) == ~Task(t).is_active
TaskIsFull(t) == Task(t).current_claims >= Task(t).max_claims
AlreadyClaimed(w, t) == HasClaim(t, w)
PrerequisiteErrors == {"MissingRequiredTaskProof", "InvalidPrerequisiteAccount"}

(***************************************************************************)
(* C15, as stated.  For a registered agent and an existing task, the       *)
(* rejection of a submit_proof is that of the earliest failing step in the *)
(* order tier, prerequisite, active, capacity, Claim-creation conflict.    *)
(***************************************************************************)
C15_Original ==
  \A w \in Identities, t \in TaskIds, prereq \in PrereqRefs :
    (HasAgent(w) /\ HasTask(t)) =>
      LET err == SubmitTx(w, t, prereq).err
      IN IF TierFails(w, t) THEN err = "TierTooLow"
         ELSE IF PrerequisiteFails(w, t, prereq) THEN err \in PrerequisiteErrors
         ELSE IF TaskIsInactive(t) THEN err = "TaskInactive"
         ELSE IF TaskIsFull(t) THEN err = "TaskFullyClaimed"
         ELSE IF AlreadyClaimed(w, t) THEN err = "AccountAlreadyInUse"
         ELSE err \in {"Ok", "MathOverflow"}

(***************************************************************************)
(* C15, amended.  For a registered agent and an existing task, the         *)
(* Claim-creation conflict of an already-claimed (task, agent) pair is     *)
(* reported before every other rejection; otherwise the rejection is that  *)
(* of the earliest failing step in the order tier (TierTooLow),            *)
(* prerequisite verification, active (TaskInactive), capacity              *)
(* (TaskFullyClaimed).                                                     *)
(***************************************************************************)
C15_CheckOrder ==
  \A w \in Identities, t \in TaskIds, prereq \in PrereqRefs :
    (HasAgent(w) /\ HasTask(t)) =>
      LET err == SubmitTx(w, t, prereq).err
      IN IF AlreadyClaimed(w, t) THEN err = "AccountAlreadyInUse"
         ELSE IF TierFails(w, t) THEN err = "TierTooLow"
         ELSE IF PrerequisiteFails(w, t, prereq) THEN err \in PrerequisiteErrors
         ELSE IF TaskIsInactive(t) THEN err = "TaskInactive"
         ELSE IF TaskIsFull(t) THEN err = "TaskFullyClaimed"
         ELSE err \in {"Ok", "MathOverflow"}

\* Several steps fail at once: an agent without the prerequisite proof on
\* a task that is inactive and full, and an agent that already holds the
\* Claim of a task that is inactive and full.
C15_Witness ==
  /\ \E w \in Identities, t \in TaskIds, prereq \in PrereqRefs :
       /\ HasAgent(w) /\ HasTask(t) /\ ~AlreadyClaimed(w, t) /\ ~TierFails(w, t)
       /\ PrerequisiteFails(w, t, prereq) /\ TaskIsInactive(t) /\ TaskIsFull(t)
       /\ SubmitTx(w, t, prereq).err \in PrerequisiteErrors
  /\ \E w \in Identities, t \in TaskIds :
       /\ HasTask(t) /\ AlreadyClaimed(w, t) /\ TaskIsInactive(t) /\ TaskIsFull(t)
       /\ SubmitTx(w, t, NoAccount).err = "AccountAlreadyInUse"

(***************************************************************************)
(* C16.  Every record of every kind - Protocol, Agent, Task, Claim,        *)
(* Invite - carries layout_version = ACCOUNT_LAYOUT_V1.                    *)
(***************************************************************************)
AllCarryLayout(store) ==
  \A a \in DOMAIN store : store[a].layout_version = ACCOUNT_LAYOUT_V1

C16_LayoutVersion ==
  /\ AllCarryLayout(protocol)
  /\ AllCarryLayout(agents)
  /\ AllCarryLayout(tasks)
  /\ AllCarryLayout(claims)
  /\ AllCarryLayout(invites)

(***************************************************************************)
(* C17.  A Claim record, once created by submit_proof, is never modified   *)
(* or removed by a later transition; the reward_clips of a Task never      *)
(* changes after create_task; every Claim names its task and agent and its *)
(* clips_awarded equals the reward_clips of its task; and the submit_proof *)
(* that creates it credits exactly that amount to the agent's balance and  *)
(* to total_clips_distributed.                                             *)
(***************************************************************************)
C17_ClaimMatchesTask ==
  /\ \A t \in TaskIds, w \in Identities :
       HasClaim(t, w) =>
         /\ HasTask(t) /\ HasAgent(w)
         /\ Claim(t, w).task_id = t
         /\ Claim(t, w).agent = w
         /\ Claim(t, w).clips_awarded = Task(t).reward_clips
  /\ \A c \in DOMAIN claims : \E t \in TaskIds, w \in Identities : c = ClaimPda(t, w)
  /\ \A t \in TaskIds, w \in Identities, prereq \in PrereqRefs :
       LET tx == SubmitTx(w, t, prereq)
           after == Commit(St, tx)
       IN tx.err = "Ok" =>
            /\ ~HasClaim(t, w)
            /\ after.claims[ClaimPda(t, w)].clips_awarded = Task(t).reward_clips
            /\ after.agents[AgentPda(w)].clips_balance =
                 Agent(w).clips_balance + after.claims[ClaimPda(t, w)].clips_awarded
            /\ after.protocol[ProtocolPda].total_clips_distributed =
                 Protocol.total_clips_distributed
                   + after.claims[ClaimPda(t, w)].clips_awarded
            /\ \A c \in DOMAIN claims : after.claims[c] = claims[c]

C17_ClaimKept ==
  /\ \A c \in DOMAIN claims : c \in DOMAIN claims' /\ claims'[c] = claims[c]
  /\ \A t \in TaskIds :
       HasTask(t) => tasks'[TaskPda(t)].reward_clips = Task(t).reward_clips

C17_ClaimImmutable == [](C17_ClaimMatchesTask) /\ [][C17_ClaimKept]_vars

\* A Claim has outlived later transitions: its task has been deactivated
\* and its agent has completed another task since or before.
C17_Witness ==
  \E t \in TaskIds, w \in Identities :
    /\ HasClaim(t, w)
    /\ ~Task(t).is_active
    /\ Agent(w).tasks_completed = 2
    /\ Claim(t, w).clips_awarded = Task(t).reward_clips
    /\ Claim(t, w).clips_awarded > 0

(***************************************************************************)
(* C18.  The invitee reward is None exactly when base_reward_unit * 3      *)
(* exceeds the u64 maximum - also where floor(3 * base_reward_unit / 2)    *)
(* would be representable - and the inviter bonus base_reward_unit / 2 is  *)
(* always in range.  A register_agent_with_invite fails with MathOverflow  *)
(* exactly when it has passed its validation and its require! checks and   *)
(* that product, or one of the later checked additions, is out of range;   *)
(* on the product it fails before the handler has written anything.        *)
(***************************************************************************)
RewardSamples == BaseRewardUnits \cup {0, 1, U64Max \div 3 + 1, U64Max - 1, U64Max}

C18_Reward ==
  \A b \in RewardSamples :
    /\ (invitee_reward_of(b) = <<>>) <=> (b * 3 > U64Max)
    /\ invitee_reward_of(b) # <<>> => invitee_reward_of(b) = <<(3 * b) \div 2>>
    /\ inviter_bonus_of(b) = b \div 2
    /\ inviter_bonus_of(b) <= U64Max

InviteAdditionOverflows(inviter, invite_of) ==
  LET b == Protocol.base_reward_unit
  IN \/ Agent(inviter).clips_balance + (b \div 2) > U64Max
     \/ Agent(inviter).invites_sent + 1 > U32Max
     \/ Invite(invite_of).invites_redeemed + 1 > U32Max
     \/ Protocol.total_agents + 1 > U32Max
     \/ Protocol.total_clips_distributed + ((3 * b) \div 2) > U64Max
     \/ Protocol.total_clips_distributed + ((3 * b) \div 2) + (b \div 2) > U64Max

C18_Transaction ==
  \A w \in Identities, inviter \in Identities, invite_of \in Identities,
     invite_code \in InviteCodes :
    LET acc == RegisterAgentWithInvite_accounts(St, w, inviter, invite_of)
        tx == InviteTx(w, inviter, invite_of, invite_code)
        passes == /\ acc.err = "Ok"
                  /\ register_agent_with_invite_requires(
                       Agent(inviter), Invite(invite_of), w, invite_code) = "Ok"
    IN /\ ~passes => tx.err \notin {"Ok", "MathOverflow"}
       /\ passes =>
            LET product == Protocol.base_reward_unit * 3 > U64Max
            IN /\ (tx.err = "MathOverflow") <=>
                    (product \/ InviteAdditionOverflows(inviter, invite_of))
               /\ tx.err \in {"Ok", "MathOverflow"}
               /\ product => tx.st = acc.st

C18_MultiplicationOverflow ==
  /\ C18_Reward
  /\ C18_Transaction

\* The product overflows although the reward itself and the inviter's new
\* balance are representable and the counters have room: the transaction
\* fails with MathOverflow.
C18_Witness ==
  \E w \in Identities, inviter \in Identities :
    LET b == Protocol.base_reward_unit
    IN /\ HasProtocol /\ HasAgent(inviter) /\ HasInvite(inviter) /\ ~HasAgent(w)
       /\ b * 3 > U64Max
       /\ (3 * b) \div 2 <= U64Max
       /\ Agent(inviter).clips_balance + (b \div 2) <= U64Max
       /\ Protocol.total_agents + 1 <= U32Max
       /\ InviteTx(w, inviter, inviter, to_bytes(inviter)).err = "MathOverflow"

(***************************************************************************)
(* C19.  For every identity with an Invite record, Invite.invites_redeemed *)
(* equals its Agent's invites_sent and equals the number of Agent records  *)
(* whose invited_by is that identity; an identity without one has sent no  *)
(* invite and invited nobody.  An Agent created by register_agent has      *)
(* invites_redeemed = 0 and no inviter, one created by                     *)
(* register_agent_with_invite has invites_redeemed = 1 and the inviter it  *)
(* named, and neither field ever changes afterwards.                       *)
(***************************************************************************)
InvitedBy(st, inviter) ==
  {a \in DOMAIN st.agents : st.agents[a].invited_by = inviter}

C19_Counts ==
  /\ \A w \in Identities :
       IF HasInvite(w)
       THEN /\ HasAgent(w)
            /\ Invite(w).inviter_wallet = w
            /\ Invite(w).invites_redeemed = Agent(w).invites_sent
            /\ Invite(w).invites_redeemed = Cardinality(InvitedBy(St, w))
       ELSE /\ InvitedBy(St, w) = {}
            /\ HasAgent(w) => Agent(w).invites_sent = 0
  /\ \A w \in Identities :
       HasAgent(w) =>
         /\ Agent(w).invites_redeemed \in {0, 1}
         /\ (Agent(w).invites_redeemed = 1) <=> (Agent(w).invited_by \in Identities)
         /\ (Agent(w).invites_redeemed = 0) <=> (Agent(w).invited_by = DefaultPubkey)
  /\ \A w \in Identities :
       LET tx == register_agent(St, w)
       IN tx.err = "Ok" =>
            /\ tx.st.agents[AgentPda(w)].invites_redeemed = 0
            /\ tx.st.agents[AgentPda(w)].invited_by = DefaultPubkey
  /\ \A w \in Identities, inviter \in Identities, invite_code \in InviteCodes :
       LET tx == InviteTx(w, inviter, inviter, invite_code)
       IN tx.err = "Ok" =>
            /\ tx.st.agents[AgentPda(w)].invites_redeemed = 1
            /\ tx.st.agents[AgentPda(w)].invited_by = inviter
            /\ tx.st.agents[AgentPda(inviter)].invites_sent = Agent(inviter).invites_sent + 1
            /\ tx.st.invites[InvitePda(inviter)].invites_redeemed =
                 Invite(inviter).invites_redeemed + 1

C19_OriginKept ==
  \A w \in Identities :
    HasAgent(w) =>
      /\ agents'[AgentPda(w)].invites_redeemed = Agent(w).invites_redeemed
      /\ agents'[AgentPda(w)].invited_by = Agent(w).invited_by

C19_InviteCounters == [](C19_Counts) /\ [][C19_OriginKept]_vars

\* An invite has been redeemed: the inviter, registered plainly, has sent
\* one invite, and the invitee carries the redemption.
C19_Witness ==
  \E inviter \in Identities, w \in Identities :
    /\ HasInvite(inviter)
    /\ Invite(inviter).invites_redeemed = 1
    /\ Agent(inviter).invites_sent = 1
    /\ Agent(inviter).invites_redeemed = 0
    /\ HasAgent(w)
    /\ Agent(w).invited_by = inviter
    /\ Agent(w).invites_redeemed = 1

(***************************************************************************)
(* C20.  In every reachable state each Task's current_claims equals the    *)
(* number of Claim records whose task_id is that task, each Agent's        *)
(* tasks_completed equals the number of Claim records whose agent is that  *)
(* agent, and Protocol.total_tasks equals the number of Task records.      *)
(***************************************************************************)
ClaimsOfTask(t) == {c \in DOMAIN claims : claims[c].task_id = t}
ClaimsOfAgent(w) == {c \in DOMAIN claims : claims[c].agent = w}

C20_CountersMatchRecords ==
  /\ \A t \in TaskIds :
       HasTask(t) =>
         /\ Task(t).task_id = t
         /\ Task(t).current_claims = Cardinality(ClaimsOfTask(t))
  /\ \A w \in Identities :
       HasAgent(w) =>
         /\ Agent(w).wallet = w
         /\ Agent(w).tasks_completed = Cardinality(ClaimsOfAgent(w))
  /\ \A c \in DOMAIN claims :
       /\ \E t \in TaskIds : HasTask(t) /\ claims[c].task_id = t
       /\ \E w \in Identities : HasAgent(w) /\ claims[c].agent = w
  /\ IF HasProtocol
     THEN Protocol.total_tasks = Cardinality(DOMAIN tasks)
     ELSE tasks = NoRecords /\ claims = NoRecords

\* Both task ids are taken, one task has been claimed by two agents and one
\* agent has completed two tasks.
C20_Witness ==
  /\ HasProtocol /\ Protocol.total_tasks = 2
  /\ \E t \in TaskIds : HasTask(t) /\ Task(t).current_claims = 2
  /\ \E w \in Identities : HasAgent(w) /\ Agent(w).tasks_completed = 2

(***************************************************************************)
(* C21.  Every Agent's efficiency_tier is 0 and no transition changes it;  *)
(* so every task with min_tier >= 1 has current_claims = 0 and no Claim,   *)
(* no submit_proof on it succeeds, and every submit_proof on it by a       *)
(* registered agent fails with TierTooLow.                                 *)
(***************************************************************************)
C21_TierZero ==
  /\ \A w \in Identities : HasAgent(w) => Agent(w).efficiency_tier = 0
  /\ \A t \in TaskIds :
       (HasTask(t) /\ Task(t).min_tier >= 1) =>
         /\ Task(t).current_claims = 0
         /\ \A w \in Identities : ~HasClaim(t, w)
         /\ \A w \in Identities, prereq \in PrereqRefs :
              LET tx == SubmitTx(w, t, prereq)
              IN /\ tx.err # "Ok"
                 /\ HasAgent(w) => tx.err = "TierTooLow"

C21_TierKept ==
  \A w \in Identities :
    /\ HasAgent(w) => agents'[AgentPda(w)].efficiency_tier = Agent(w).efficiency_tier
    /\ (~HasAgent(w) /\ Exists(agents', AgentPda(w))) =>
         agents'[AgentPda(w)].efficiency_tier = 0

C21_TierNeverRaised == [](C21_TierZero) /\ [][C21_TierKept]_vars

\* An active task with min_tier 1, room for a claim and no prerequisite is
\* submitted to by an agent that has already completed another task: only
\* the tier stands in the way.
C21_Witness ==
  \E t \in TaskIds, w \in Identities :
    /\ HasTask(t) /\ Task(t).min_tier >= 1
    /\ Task(t).is_active
    /\ Task(t).current_claims < Task(t).max_claims
    /\ ~HasPrerequisite(t)
    /\ HasAgent(w) /\ Agent(w).tasks_completed >= 1
    /\ SubmitInRange(w, t)
    /\ SubmitTx(w, t, NoAccount).err = "TierTooLow"

(***************************************************************************)
(* C22.  A create_task that has passed its account validation is rejected  *)
(* with InvalidTaskPrerequisite exactly when required_task_id is not the   *)
(* sentinel and equals its own task_id; any other required_task_id is      *)
(* accepted, whether or not it names an existing task and whether or not   *)
(* it closes a cycle with an existing task.  Two tasks that name each      *)
(* other as prerequisite have no Claim and current_claims = 0, and no      *)
(* submit_proof on either succeeds.                                        *)
(***************************************************************************)
NamesEachOther(t1, t2) ==
  /\ t1 # t2
  /\ HasTask(t1) /\ HasTask(t2)
  /\ Task(t1).required_task_id = t2
  /\ Task(t2).required_task_id = t1

C22_CreateTask ==
  \A a \in Identities, t \in TaskIds, params \in TaskParams,
     required \in TaskIds \cup {NO_PREREQ_TASK_ID} :
    CreateTask_accounts(St, a, t).err = "Ok" =>
      LET tx == create_task(St, a, t, params[1], params[2], params[3], required)
      IN /\ (tx.err = "InvalidTaskPrerequisite") <=>
              (required # NO_PREREQ_TASK_ID /\ required = t)
         /\ tx.err \in {"Ok", "InvalidTaskPrerequisite", "MathOverflow"}
         /\ (tx.err = "MathOverflow") <=>
              (~(required # NO_PREREQ_TASK_ID /\ required = t)
                 /\ Protocol.total_tasks + 1 > U32Max)
         /\ tx.err = "Ok" =>
              Commit(St, tx).tasks[TaskPda(t)].required_task_id = required

C22_CycleUnclaimed ==
  \A t1 \in TaskIds, t2 \in TaskIds :
    NamesEachOther(t1, t2) =>
      /\ Task(t1).current_claims = 0
      /\ \A w \in Identities : ~HasClaim(t1, w)
      /\ \A w \in Identities, prereq \in PrereqRefs : SubmitTx(w, t1, prereq).err # "Ok"

C22_PrerequisiteUnchecked ==
  /\ C22_CreateTask
  /\ C22_CycleUnclaimed

\* Two active tasks open to tier 0 name each other: the first was accepted
\* while its prerequisite did not exist, the second closed the cycle.  A
\* registered agent submits a proof on one of them and is rejected.
C22_Witness ==
  \E t1 \in TaskIds, t2 \in TaskIds, w \in Identities :
    /\ NamesEachOther(t1, t2)
    /\ Task(t1).is_active /\ Task(t2).is_active
    /\ Task(t1).min_tier = 0 /\ Task(t2).min_tier = 0
    /\ HasAgent(w)
    /\ SubmitTx(w, t1, NoAccount).err = "MissingRequiredTaskProof"
    /\ SubmitTx(w, t1, ClaimPda(t2, w)).err = "MissingRequiredTaskProof"

====
